---- MODULE Spec2Model ----
(***************************************************************************)
(* netmgr: a zone description (Zone -> Network -> Server) is expanded into *)
(* DNS records (src/src/model.rs), diffed by name against the records the  *)
(* provider lists, and the changed and missing records are sent to the     *)
(* provider (src/src/main.rs).                                             *)
(*                                                                         *)
(* A string is the sequence of its dot-separated labels: "web.ex.com" is   *)
(* <<"web", "ex", "com">>, so that format!("{}.{}", x, y) is x \o y and a  *)
(* configured name that itself holds a dot is a sequence of two labels.    *)
(***************************************************************************)
EXTENDS Naturals, Sequences, FiniteSets, TLC

VARIABLES
    zone,        \* ZoneSpec, Spec: the Zone read from the configuration
    ran,         \* ZoneSpec: the filters records() has been called with
    out,         \* ZoneSpec: filter -> the Vec<Record> records(filter) returned
    obs,         \* DiffSpec: a, the observed Vec<Record> given to Diff::new
    des,         \* DiffSpec: b, the desired Vec<Record> given to Diff::new
    diffs,       \* DiffSpec: the Diff values returned so far, oldest first
    applied,     \* DiffSpec: whether the first Diff has been applied to obs
    provider,    \* Spec: the records the DNS provider holds, in listing order
    pc,          \* Spec: where main is
    recs,        \* Spec: main's recs, zone.all_records()
    dns_records, \* Spec: the listing get_current_records fetched
    record_ids,  \* Spec: main's record_ids, name -> id
    cf_recs,     \* Spec: main's cf_recs
    diff,        \* Spec: main's d, the Diff
    ci,          \* Spec: pairs of d.changed the first loop has taken
    mi,          \* Spec: records of d.missing the second loop has taken
    calls,       \* Spec: the update_record and create_record calls made so far
    err          \* Spec: the error main ended with, "" for none

zoneVars == <<ran, out>>
diffVars == <<obs, des, diffs, applied>>
mainVars ==
    <<provider, pc, recs, dns_records, record_ids, cf_recs, diff, ci, mi, calls, err>>
vars == <<zone, zoneVars, diffVars, mainVars>>

\* ------------------------------------------------------------------ bounds
\* A zone's size is the number of its networks, servers and aliases.
MaxZoneSize == 4

\* The records of the two inputs of Diff::new, taken together.
MaxDiffRecords == 4

\* The records the provider holds when main starts.
MaxListing == 3

\* ----------------------------------------------------------------- strings
\* format!("{}.{}", x, y)
Dot(x, y) == x \o y

\* format!("{}.{}.{}", x, y, z)
Dot3(x, y, z) == x \o y \o z

\* format!("{}.{}.{}.{}", w, x, y, z)
Dot4(w, x, y, z) == w \o x \o y \o z

RECURSIVE Concat(_)
\* Iterator::flat_map(..).collect() / Vec::extend over a sequence of Vecs
Concat(ss) ==
    IF ss = <<>> THEN <<>> ELSE Head(ss) \o Concat(Tail(ss))

\* ------------------------------------------------------------------ Record
\* Record::A(name, value)
A(name, value) == [variant |-> "A", name |-> name, value |-> value]

\* Record::Cname(name, value)
Cname(name, value) == [variant |-> "Cname", name |-> name, value |-> value]

\* Record::name
RecordName(r) == r.name

\* Record::value
RecordValue(r) == r.value

\* ------------------------------------------------------------ RecordTypeFilter
RecordTypeFilter == {"Public", "Private", "Both"}

\* RecordTypeFilter::public
FilterPublic(filter) == filter \in {"Public", "Both"}

\* Mutant: private() answers false for Both.
FilterPrivateOnly(filter) == filter = "Private"

\* RecordTypeFilter::private
FilterPrivate(filter) == filter \in {"Private", "Both"}

\* ------------------------------------------------------------------ Server
\* Mutant: the public aliases point at the server, as the private ones do.
PublicAliasTargetSelf(self, suffix, root, domain) == Dot3(self.name, suffix, domain)

\* The target of the aliases Server::public_records emits: root_full.
PublicAliasTarget(self, suffix, root, domain) == Dot3(root, suffix, domain)

\* Server::public_records
ServerPublicRecords(self, suffix, root, domain) ==
    LET root_full == PublicAliasTarget(self, suffix, root, domain)
        v == IF self.name # root
             THEN <<Cname(Dot3(self.name, suffix, domain), root_full)>>
             ELSE <<>>
    IN  v \o [i \in 1..Len(self.alias) |->
                Cname(Dot3(self.alias[i], suffix, domain),
                      PublicAliasTarget(self, suffix, root, domain))]

\* Mutant: the network suffix is left out of the private alias target.
PrivateAliasTargetBare(self, suffix, domain) == Dot(self.name, domain)

\* The target of the aliases Server::private_records emits.
PrivateAliasTarget(self, suffix, domain) == Dot3(self.name, suffix, domain)

\* Server::private_records
ServerPrivateRecords(self, suffix, domain) ==
    LET v == <<A(Dot3(self.name, suffix, domain), self.private_ip)>>
    IN  v \o [i \in 1..Len(self.alias) |->
                Cname(Dot3(self.alias[i], suffix, domain),
                      PrivateAliasTarget(self, suffix, domain))]

\* ----------------------------------------------------------------- Network
\* Network::public_records
NetworkPublicRecords(self, domain) ==
    LET rs == Concat([i \in 1..Len(self.servers) |->
                    ServerPublicRecords(self.servers[i], self.name, self.root, domain)])
    IN  Append(rs, Cname(Dot(self.name, domain),
                         Dot3(self.root, self.name, domain)))

\* Network::private_records
NetworkPrivateRecords(self, private_prefix, domain) ==
    LET rs == Concat([i \in 1..Len(self.servers) |->
                    ServerPrivateRecords(self.servers[i],
                                         Dot(self.name, private_prefix), domain)])
    IN  Append(rs, Cname(Dot3(self.name, private_prefix, domain),
                         Dot4(self.root, self.name, private_prefix, domain)))

\* -------------------------------------------------------------------- Zone
\* Zone::records
ZoneRecords(self, filter) ==
    LET pub == IF FilterPublic(filter)
               THEN Concat([i \in 1..Len(self.networks) |->
                        NetworkPublicRecords(self.networks[i], self.domain)])
               ELSE <<>>
        priv == IF FilterPrivate(filter)
                THEN Concat([i \in 1..Len(self.networks) |->
                         NetworkPrivateRecords(self.networks[i],
                                               self.private_prefix, self.domain)])
                ELSE <<>>
    IN  pub \o priv

\* Zone::all_records
ZoneAllRecords(self) == ZoneRecords(self, "Both")

\* -------------------------------------------------------------------- Diff
\* Mutant: the value already held under the key is kept.
HashMapInsertFirstWins(m, k, v) ==
    [x \in (DOMAIN m) \cup {k} |-> IF x \in DOMAIN m THEN m[x] ELSE v]

\* HashMap::insert: a later value replaces the one held under the key.
HashMapInsert(m, k, v) ==
    [x \in (DOMAIN m) \cup {k} |-> IF x = k THEN v ELSE m[x]]

RECURSIVE HashMapCollect(_)
\* Iterator::collect::<HashMap<_, _>>() over a sequence of (key, value)
\* pairs: the pairs are inserted in sequence order.
HashMapCollect(pairs) ==
    IF pairs = <<>> THEN <<>>
    ELSE LET n == Len(pairs)
         IN  HashMapInsert(HashMapCollect(SubSeq(pairs, 1, n - 1)),
                           pairs[n][1], pairs[n][2])

\* a.into_iter().map(|r| (r.name(), r)).collect()
IndexByName(rs) ==
    HashMapCollect([i \in 1..Len(rs) |-> <<RecordName(rs[i]), rs[i]>>])

\* HashMap::iter visits every key once, in an order the hasher decides.
IterOrders(m) ==
    {ord \in [1..Cardinality(DOMAIN m) -> DOMAIN m] :
        \A i, j \in DOMAIN ord : ord[i] = ord[j] => i = j}

\* Mutant: the records are compared by value() alone, variant ignored.
IsChangedByValue(record, other) == RecordValue(record) # RecordValue(other)

\* record != b.get(name).unwrap(): the derived PartialEq of Record
IsChanged(record, other) == record # other

\* Mutant: the pair is pushed as (observed, desired).
ChangedPairSwapped(desired, record) == <<record, desired>>

\* (b.get(name).unwrap().clone(), record.clone())
ChangedPair(desired, record) == <<desired, record>>

\* Mutant: the second loop pushes every desired record.
IsMissingAlways(am, name) == TRUE

\* !a.contains_key(name)
IsMissing(am, name) == name \notin DOMAIN am

RECURSIVE DiffLoopA(_, _, _, _)
\* for (name, record) in a.iter(): the vectors after k iterations
DiffLoopA(am, bm, ia, k) ==
    IF k = 0 THEN [superflous |-> <<>>, changed |-> <<>>]
    ELSE LET prev == DiffLoopA(am, bm, ia, k - 1)
             name == ia[k]
             record == am[name]
         IN  IF name \notin DOMAIN bm
             THEN [prev EXCEPT !.superflous = Append(@, record)]
             ELSE IF IsChanged(record, bm[name])
                  THEN [prev EXCEPT !.changed = Append(@, ChangedPair(bm[name], record))]
                  ELSE prev

RECURSIVE DiffLoopB(_, _, _, _)
\* for (name, record) in b.iter(): missing after k iterations
DiffLoopB(am, bm, ib, k) ==
    IF k = 0 THEN <<>>
    ELSE LET prev == DiffLoopB(am, bm, ib, k - 1)
             name == ib[k]
         IN  IF IsMissing(am, name) THEN Append(prev, bm[name]) ELSE prev

\* Diff::new(a, b), the two maps iterated in the orders ia and ib
DiffNew(a, b, ia, ib) ==
    LET am == IndexByName(a)
        bm == IndexByName(b)
        fromA == DiffLoopA(am, bm, ia, Len(ia))
    IN  [superflous |-> fromA.superflous,
         missing |-> DiffLoopB(am, bm, ib, Len(ib)),
         changed |-> fromA.changed]

\* ------------------------------------------------------- configurations
\* The strings a configuration file is drawn from. A network may be named
\* as the private prefix is, and a name may hold a dot.
Domains == {<<"ex", "com">>}
PrivatePrefixes == {<<"internal">>}
NetworkNames == {<<"web">>, <<"internal">>, <<"web", "internal">>}
ServerNames == {<<"web">>, <<"db">>}
AliasNames == {<<"web">>, <<"www">>}
PrivateIps == {<<"10", "0", "0", "1">>}

\* Alias lists of exactly k aliases.
AliasLists(k) == [1..k -> AliasNames]

\* Servers of size k: the server and its k - 1 aliases.
ServersOfSize(k) ==
    IF k = 0 THEN {}
    ELSE {[name |-> n, private_ip |-> ip, alias |-> al] :
            n \in ServerNames, ip \in PrivateIps, al \in AliasLists(k - 1)}

\* Server lists of total size exactly k.
ServerLists[k \in 0..MaxZoneSize] ==
    IF k = 0 THEN {<<>>}
    ELSE UNION {{<<s>> \o rest : s \in ServersOfSize(j), rest \in ServerLists[k - j]} :
                    j \in 1..k}

\* Networks of size k: the network and servers of total size k - 1.
NetworksOfSize(k) ==
    IF k = 0 THEN {}
    ELSE {[name |-> n, root |-> r, servers |-> ss] :
            n \in NetworkNames, r \in ServerNames, ss \in ServerLists[k - 1]}

\* Network lists of total size exactly k.
NetworkLists[k \in 0..MaxZoneSize] ==
    IF k = 0 THEN {<<>>}
    ELSE UNION {{<<n>> \o rest : n \in NetworksOfSize(j), rest \in NetworkLists[k - j]} :
                    j \in 1..k}

\* The zones serde_yaml can hand to the program, up to MaxZoneSize.
Zones ==
    {[domain |-> d, private_prefix |-> p, networks |-> ns] :
        d \in Domains, p \in PrivatePrefixes,
        ns \in UNION {NetworkLists[k] : k \in 0..MaxZoneSize}}

\* The records Diff::new is given in DiffSpec: two names, both variants,
\* and two values that either variant may carry.
DiffNames == {<<"x", "ex", "com">>, <<"y", "ex", "com">>}
DiffValues == {<<"1", "1", "1", "1">>, <<"x", "ex", "com">>}
DiffRecords ==
    {A(n, v) : n \in DiffNames, v \in DiffValues}
        \cup {Cname(n, v) : n \in DiffNames, v \in DiffValues}

\* The pairs (observed, desired) of at most MaxDiffRecords records in all.
DiffInputs ==
    UNION {[1..p[1] -> DiffRecords] \X [1..p[2] -> DiffRecords] :
            p \in {q \in (0..MaxDiffRecords) \X (0..MaxDiffRecords) :
                        q[1] + q[2] <= MaxDiffRecords}}

\* main has not started and the provider holds nothing.
MainIdle ==
    /\ provider = <<>>
    /\ pc = "start"
    /\ recs = <<>>
    /\ dns_records = <<>>
    /\ record_ids = <<>>
    /\ cf_recs = <<>>
    /\ diff = [superflous |-> <<>>, missing |-> <<>>, changed |-> <<>>]
    /\ ci = 0
    /\ mi = 0
    /\ calls = <<>>
    /\ err = ""

\* ---------------------------------------------------------------- ZoneSpec
\* The expansion, applied to every zone of Zones under each filter.
ZoneInit ==
    /\ zone \in Zones
    /\ ran = {}
    /\ out = [f \in RecordTypeFilter |-> <<>>]
    /\ obs = <<>> /\ des = <<>> /\ diffs = <<>> /\ applied = FALSE
    /\ MainIdle

\* zone.records(RecordTypeFilter::Public)
RecordsPublic ==
    /\ "Public" \notin ran
    /\ ran' = ran \cup {"Public"}
    /\ out' = [out EXCEPT !["Public"] = ZoneRecords(zone, "Public")]
    /\ UNCHANGED <<zone, diffVars, mainVars>>

\* zone.records(RecordTypeFilter::Private)
RecordsPrivate ==
    /\ "Private" \notin ran
    /\ ran' = ran \cup {"Private"}
    /\ out' = [out EXCEPT !["Private"] = ZoneRecords(zone, "Private")]
    /\ UNCHANGED <<zone, diffVars, mainVars>>

\* zone.all_records()
AllRecords ==
    /\ "Both" \notin ran
    /\ ran' = ran \cup {"Both"}
    /\ out' = [out EXCEPT !["Both"] = ZoneAllRecords(zone)]
    /\ UNCHANGED <<zone, diffVars, mainVars>>

ZoneNext == RecordsPublic \/ RecordsPrivate \/ AllRecords

ZoneSpec == ZoneInit /\ [][ZoneNext]_vars

\* ---------------------------------------------------------------- DiffSpec
\* The record of the name sent with an update replaces the record the
\* listing holds under that name (main's first loop, seen from the listing).
UpdateObserved(o, a) ==
    LET hits == {i \in 1..Len(o) : RecordName(o[i]) = RecordName(a)}
        last == CHOOSE i \in hits : \A j \in hits : j <= i
    IN  IF hits = {} THEN o ELSE [o EXCEPT ![last] = a]

RECURSIVE ApplyChanged(_, _)
\* for (a, _b) in d.changed { update_record(.., a, ..) }
ApplyChanged(o, changed) ==
    IF changed = <<>> THEN o
    ELSE ApplyChanged(UpdateObserved(o, Head(changed)[1]), Tail(changed))

\* for record in d.missing { create_record(.., record, ..) }
ApplyMissing(o, missing) == o \o missing

DiffInit ==
    /\ \E p \in DiffInputs : obs = p[1] /\ des = p[2]
    /\ diffs = <<>>
    /\ applied = FALSE
    /\ zone = [domain |-> <<>>, private_prefix |-> <<>>, networks |-> <<>>]
    /\ ran = {}
    /\ out = [f \in RecordTypeFilter |-> <<>>]
    /\ MainIdle

\* let d = Diff::new(cf_recs, recs), on the first pass and on the next
CallDiffNew ==
    /\ Len(diffs) = (IF applied THEN 1 ELSE 0)
    /\ \E ia \in IterOrders(IndexByName(obs)), ib \in IterOrders(IndexByName(des)) :
            diffs' = Append(diffs, DiffNew(obs, des, ia, ib))
    /\ UNCHANGED <<obs, des, applied, zone, zoneVars, mainVars>>

\* Every update and every create of the first pass succeeds.
ApplyDiff ==
    /\ Len(diffs) = 1
    /\ ~applied
    /\ obs' = ApplyMissing(ApplyChanged(obs, diffs[1].changed), diffs[1].missing)
    /\ applied' = TRUE
    /\ UNCHANGED <<des, diffs, zone, zoneVars, mainVars>>

DiffNext == CallDiffNew \/ ApplyDiff

DiffSpec == DiffInit /\ [][DiffNext]_vars

\* -------------------------------------------------------------------- main
\* The decimal octets the addresses of the model are written with.
Octets == {"0", "1", "2", "10"}

\* str::parse::<Ipv4Addr>: four decimal octets, anything else is an Err.
ParsesAsIp(value) == Len(value) = 4 /\ \A i \in 1..4 : value[i] \in Octets

\* cf_record_to_record: Some(record) as <<record>>, None as <<>>
CfRecordToRecord(cf) ==
    IF cf.type = "A" THEN <<A(cf.name, cf.content)>>
    ELSE IF cf.type = "CNAME" THEN <<Cname(cf.name, cf.content)>>
    ELSE <<>>

\* dns_records.iter().map(|r| (r.name.to_string(), r.id.to_string())).collect()
RecordIds(listing) ==
    HashMapCollect([i \in 1..Len(listing) |-> <<listing[i].name, listing[i].id>>])

\* dns_records.iter().flat_map(cf_record_to_record).collect()
CfRecs(listing) ==
    Concat([i \in 1..Len(listing) |-> CfRecordToRecord(listing[i])])

\* Mutant: the id of the record listed last is sent, whatever its name.
UpdateIdentifierOfLast(ids, new_value) ==
    IF DOMAIN ids = {} THEN <<>>
    ELSE <<CHOOSE x \in {ids[n] : n \in DOMAIN ids} :
                \A y \in {ids[n] : n \in DOMAIN ids} : y <= x>>

\* record_ids.get(&new_value.name()): Some(id) as <<id>>, None as <<>>
UpdateIdentifier(ids, new_value) ==
    IF RecordName(new_value) \in DOMAIN ids
    THEN <<ids[RecordName(new_value)]>>
    ELSE <<>>

\* The DnsContent update_record and create_record build from a Record.
DnsContent(record) ==
    IF record.variant = "A"
    THEN [type |-> "A", content |-> RecordValue(record)]
    ELSE [type |-> "CNAME", content |-> RecordValue(record)]

\* The provider's answer to an UpdateDnsRecord it accepts: the record of
\* that id carries the name and the content sent.
ProviderUpdate(p, id, name, content) ==
    [i \in 1..Len(p) |->
        IF p[i].id = id
        THEN [id |-> id, name |-> name, type |-> content.type,
              content |-> content.content]
        ELSE p[i]]

\* The provider's answer to a CreateDnsRecord it accepts: a record with an
\* id of its own is added.
ProviderCreate(p, name, content) ==
    Append(p, [id |-> Len(p) + 1, name |-> name, type |-> content.type,
               content |-> content.content])

\* Mutant: the error of update_record or create_record is dropped.
AfterCallIgnoringErr(ok) == "applying"

\* update_record(..)? and create_record(..)?: an Err ends main.
AfterCall(ok) == IF ok THEN "applying" ELSE "failed"

\* The zones main is run on: one network "web" whose root and only server is
\* "web1", with an address that parses and with one that does not.
MainZones ==
    {[domain |-> <<"ex", "com">>, private_prefix |-> <<"internal">>,
      networks |-> <<[name |-> <<"web">>, root |-> <<"web1">>,
                      servers |-> <<[name |-> <<"web1">>, private_ip |-> ip,
                                     alias |-> <<>>]>>]>>] :
        ip \in {<<"10", "0", "0", "1">>, <<"10", "0", "0", "256">>}}

\* What the provider may hold: under two names the zone wants and under one
\* it does not, address records, alias records and records of a type
\* cf_record_to_record drops.
ProviderNames ==
    {<<"web", "ex", "com">>, <<"web1", "web", "internal", "ex", "com">>,
     <<"old", "ex", "com">>}
ProviderContents ==
    [A |-> {<<"10", "0", "0", "1">>, <<"10", "0", "0", "2">>},
     CNAME |-> {<<"web1", "web", "ex", "com">>, <<"old", "ex", "com">>},
     TXT |-> {<<"v=spf1">>}]
ProviderEntries ==
    UNION {{[name |-> n, type |-> t, content |-> c] :
                n \in ProviderNames, c \in ProviderContents[t]} :
            t \in {"A", "CNAME", "TXT"}}

\* DNS lets a name hold several records, but an alias record only alone,
\* and the provider holds no record twice.
ListingAllowed(es) ==
    \A i, j \in 1..Len(es) :
        (i # j /\ es[i].name = es[j].name) =>
            /\ es[i].type # "CNAME"
            /\ es[j].type # "CNAME"
            /\ es[i] # es[j]

\* The listings of at most MaxListing records; a record's id is its place.
Listings ==
    {[i \in 1..Len(es) |->
        [id |-> i, name |-> es[i].name, type |-> es[i].type,
         content |-> es[i].content]] :
        es \in {x \in UNION {[1..n -> ProviderEntries] : n \in 0..MaxListing} :
                    ListingAllowed(x)}}

Init ==
    /\ zone \in MainZones
    /\ provider \in Listings
    /\ pc = "start"
    /\ recs = <<>>
    /\ dns_records = <<>>
    /\ record_ids = <<>>
    /\ cf_recs = <<>>
    /\ diff = [superflous |-> <<>>, missing |-> <<>>, changed |-> <<>>]
    /\ ci = 0
    /\ mi = 0
    /\ calls = <<>>
    /\ err = ""
    /\ ran = {}
    /\ out = [f \in RecordTypeFilter |-> <<>>]
    /\ obs = <<>> /\ des = <<>> /\ diffs = <<>> /\ applied = FALSE

\* main, lines 76-80: the zone is read and expanded, and its domain looked
\* up among the provider's zones.
FindZoneId ==
    /\ pc = "start"
    /\ recs' = ZoneAllRecords(zone)
    /\ \E found \in BOOLEAN :
        IF found
        THEN pc' = "zone_found" /\ err' = ""
        ELSE pc' = "failed" /\ err' = "Unable to find the zone in your account"
    /\ UNCHANGED <<zone, zoneVars, diffVars, provider, dns_records, record_ids,
                   cf_recs, diff, ci, mi, calls>>

\* main, line 81: get_current_records
GetCurrentRecords ==
    /\ pc = "zone_found"
    /\ \E ok \in BOOLEAN :
        IF ok
        THEN /\ dns_records' = provider
             /\ record_ids' = RecordIds(provider)
             /\ cf_recs' = CfRecs(provider)
             /\ pc' = "listed"
             /\ err' = ""
        ELSE /\ pc' = "failed"
             /\ err' = "request failed"
             /\ UNCHANGED <<dns_records, record_ids, cf_recs>>
    /\ UNCHANGED <<zone, zoneVars, diffVars, provider, recs, diff, ci, mi, calls>>

\* main, line 83: let d = Diff::new(cf_recs, recs)
MainDiff ==
    /\ pc = "listed"
    /\ \E ia \in IterOrders(IndexByName(cf_recs)), ib \in IterOrders(IndexByName(recs)) :
            diff' = DiffNew(cf_recs, recs, ia, ib)
    /\ pc' = "applying"
    /\ UNCHANGED <<zone, zoneVars, diffVars, provider, recs, dns_records,
                   record_ids, cf_recs, ci, mi, calls, err>>

\* main, lines 85-88: the next pair of diff.changed goes to update_record
UpdateRecord ==
    /\ pc = "applying"
    /\ ci < Len(diff.changed)
    /\ ci' = ci + 1
    /\ LET new_value == diff.changed[ci + 1][1]
           id == UpdateIdentifier(record_ids, new_value)
           call == [op |-> "update", name |-> RecordName(new_value),
                    content |-> DnsContent(new_value)]
       IN  IF id = <<>>
           THEN /\ calls' = Append(calls, call @@ [id |-> 0, sent |-> FALSE, ok |-> FALSE])
                /\ pc' = AfterCall(FALSE)
                /\ err' = "Unable to find record id"
                /\ UNCHANGED provider
           ELSE IF new_value.variant = "A" /\ ~ParsesAsIp(RecordValue(new_value))
           THEN /\ calls' = Append(calls, call @@ [id |-> id[1], sent |-> FALSE, ok |-> FALSE])
                /\ pc' = AfterCall(FALSE)
                /\ err' = "invalid IP address syntax"
                /\ UNCHANGED provider
           ELSE \E ok \in BOOLEAN :
                /\ calls' = Append(calls, call @@ [id |-> id[1], sent |-> TRUE, ok |-> ok])
                /\ pc' = AfterCall(ok)
                /\ err' = IF ok THEN err ELSE "request failed"
                /\ provider' = IF ok
                               THEN ProviderUpdate(provider, id[1], call.name, call.content)
                               ELSE provider
    /\ UNCHANGED <<zone, zoneVars, diffVars, recs, dns_records, record_ids,
                   cf_recs, diff, mi>>

\* main, lines 89-92: the next record of diff.missing goes to create_record
CreateRecord ==
    /\ pc = "applying"
    /\ ci = Len(diff.changed)
    /\ mi < Len(diff.missing)
    /\ mi' = mi + 1
    /\ LET record == diff.missing[mi + 1]
           call == [op |-> "create", name |-> RecordName(record),
                    content |-> DnsContent(record), id |-> 0]
       IN  IF record.variant = "A" /\ ~ParsesAsIp(RecordValue(record))
           THEN /\ calls' = Append(calls, call @@ [sent |-> FALSE, ok |-> FALSE])
                /\ pc' = "panicked"
                /\ err' = "panicked at Result::unwrap on an Err value"
                /\ UNCHANGED provider
           ELSE \E ok \in BOOLEAN :
                /\ calls' = Append(calls, call @@ [sent |-> TRUE, ok |-> ok])
                /\ pc' = AfterCall(ok)
                /\ err' = IF ok THEN err ELSE "request failed"
                /\ provider' = IF ok
                               THEN ProviderCreate(provider, call.name, call.content)
                               ELSE provider
    /\ UNCHANGED <<zone, zoneVars, diffVars, recs, dns_records, record_ids,
                   cf_recs, diff, ci>>

\* main, line 93: Ok(())
Finish ==
    /\ pc = "applying"
    /\ ci = Len(diff.changed)
    /\ mi = Len(diff.missing)
    /\ pc' = "done"
    /\ UNCHANGED <<zone, zoneVars, diffVars, provider, recs, dns_records,
                   record_ids, cf_recs, diff, ci, mi, calls, err>>

Next ==
    \/ FindZoneId
    \/ GetCurrentRecords
    \/ MainDiff
    \/ UpdateRecord
    \/ CreateRecord
    \/ Finish

Spec == Init /\ [][Next]_vars

\* ================================================================== claims
SeqSet(s) == {s[i] : i \in 1..Len(s)}
SeqNames(s) == {s[i].name : i \in 1..Len(s)}

RECURSIVE SumSeq(_)
SumSeq(s) == IF s = <<>> THEN 0 ELSE Head(s) + SumSeq(Tail(s))

\* The last record of s named n.
LastOf(s, n) ==
    s[CHOOSE i \in 1..Len(s) :
        /\ s[i].name = n
        /\ \A j \in 1..Len(s) : s[j].name = n => j <= i]

\* s without the records a later record of s shares its name with.
DedupLast(s) ==
    LET keep == {i \in 1..Len(s) : \A j \in 1..Len(s) : s[j].name = s[i].name => j <= i}
        F[i \in 0..Len(s)] ==
            IF i = 0 THEN <<>>
            ELSE IF i \in keep THEN Append(F[i - 1], s[i]) ELSE F[i - 1]
    IN  F[Len(s)]

\* ----------------------------------------------------------- ZoneSpec claims
AllRan == ran = RecordTypeFilter

DotFree(z) ==
    /\ Len(z.private_prefix) = 1
    /\ \A ni \in 1..Len(z.networks) :
        /\ Len(z.networks[ni].name) = 1
        /\ \A si \in 1..Len(z.networks[ni].servers) :
            LET srv == z.networks[ni].servers[si]
            IN  /\ Len(srv.name) = 1
                /\ \A ai \in 1..Len(srv.alias) : Len(srv.alias[ai]) = 1

NoNetworkNamedAsPrefix(z) ==
    \A ni \in 1..Len(z.networks) : z.networks[ni].name # z.private_prefix

BothIsUnion ==
    SeqSet(out["Both"]) = SeqSet(out["Public"]) \cup SeqSet(out["Private"])

HalvesShareNoName ==
    SeqNames(out["Public"]) \cap SeqNames(out["Private"]) = {}

\* C3 as stated: for every zone, records(Both) is the union of records(Public)
\* and records(Private) as sets, and no name of records(Public) is a name of
\* records(Private).
C3_FilterDecomposition ==
    AllRan => (BothIsUnion /\ HalvesShareNoName)

\* C3, amended: for every zone, records(Both) is the union of records(Public)
\* and records(Private) as sets; and when private_prefix and the network,
\* server and alias names hold no dot and no network is named as the private
\* prefix is, no name of records(Public) is a name of records(Private).
C3_FilterDecompositionAmended ==
    AllRan =>
        /\ BothIsUnion
        /\ (DotFree(zone) /\ NoNetworkNamedAsPrefix(zone)) => HalvesShareNoName

\* A dot-free zone with no network named as the prefix whose server carries a
\* name that is also a network's name, expanded under the three filters.
C3_Witness ==
    /\ AllRan
    /\ DotFree(zone) /\ NoNetworkNamedAsPrefix(zone)
    /\ \E ni \in 1..Len(zone.networks) :
        \E si \in 1..Len(zone.networks[ni].servers) :
            /\ zone.networks[ni].servers[si].name = zone.networks[ni].name
            /\ zone.networks[ni].servers[si].alias # <<>>

ServerSelfAliases(net, srv) == IF srv.name = net.root THEN 0 ELSE 1

ExpectedPublicLen(z) ==
    SumSeq([ni \in 1..Len(z.networks) |->
        1 + SumSeq([si \in 1..Len(z.networks[ni].servers) |->
                ServerSelfAliases(z.networks[ni], z.networks[ni].servers[si])
                    + Len(z.networks[ni].servers[si].alias)])])

ExpectedPrivateLen(z) ==
    SumSeq([ni \in 1..Len(z.networks) |->
        1 + SumSeq([si \in 1..Len(z.networks[ni].servers) |->
                1 + Len(z.networks[ni].servers[si].alias)])])

ServerAsymmetry(z, net, srv) ==
    LET pubs == ServerPublicRecords(srv, net.name, net.root, z.domain)
        privs == ServerPrivateRecords(srv, net.name \o z.private_prefix, z.domain)
        rootFull == net.root \o net.name \o z.domain
        own == srv.name \o net.name \o z.private_prefix \o z.domain
        selfN == ServerSelfAliases(net, srv)
    IN  /\ Len(pubs) = selfN + Len(srv.alias)
        /\ \A i \in 1..Len(pubs) :
            pubs[i].variant = "Cname" /\ pubs[i].value = rootFull
        /\ selfN = 1 => pubs[1].name = srv.name \o net.name \o z.domain
        /\ \A i \in 1..Len(srv.alias) :
            pubs[selfN + i].name = srv.alias[i] \o net.name \o z.domain
        /\ Len(privs) = 1 + Len(srv.alias)
        /\ privs[1] = A(own, srv.private_ip)
        /\ \A i \in 1..Len(srv.alias) :
            privs[1 + i] =
                Cname(srv.alias[i] \o net.name \o z.private_prefix \o z.domain, own)
        /\ "Public" \in ran => \A i \in 1..Len(pubs) : pubs[i] \in SeqSet(out["Public"])
        /\ "Private" \in ran => \A i \in 1..Len(privs) : privs[i] \in SeqSet(out["Private"])

\* C6: every alias the public expansion emits for a server (one self-alias
\* iff the server is not the root, then one per configured alias) has the
\* value <root>.<network>.<domain>; every alias the private expansion emits
\* for a server's configured aliases has the value
\* <server>.<network>.<private_prefix>.<domain>, the name of the server's own
\* address record; and the expansions hold these records and no others beside
\* the one alias per network.
C6_AliasTargetAsymmetry ==
    /\ \A ni \in 1..Len(zone.networks) :
        \A si \in 1..Len(zone.networks[ni].servers) :
            ServerAsymmetry(zone, zone.networks[ni], zone.networks[ni].servers[si])
    /\ "Public" \in ran => Len(out["Public"]) = ExpectedPublicLen(zone)
    /\ "Private" \in ran => Len(out["Private"]) = ExpectedPrivateLen(zone)

\* A network with a root server and a non-root server, each with an alias,
\* expanded publicly and privately.
C6_Witness ==
    /\ {"Public", "Private"} \subseteq ran
    /\ \E ni \in 1..Len(zone.networks) :
        LET net == zone.networks[ni]
        IN  \E si, sj \in 1..Len(net.servers) :
                /\ net.servers[si].name = net.root
                /\ net.servers[sj].name # net.root
                /\ net.servers[si].alias # <<>>

RootsAreServers(z) ==
    \A ni \in 1..Len(z.networks) :
        \E si \in 1..Len(z.networks[ni].servers) :
            z.networks[ni].servers[si].name = z.networks[ni].root

\* C10: in a zone whose every network's root names one of its servers, the
\* value of every alias record of all_records() is the name of a record of
\* all_records().
C10_NoDanglingAlias ==
    ("Both" \in ran /\ RootsAreServers(zone)) =>
        \A r \in SeqSet(out["Both"]) :
            r.variant = "Cname" => r.value \in SeqNames(out["Both"])

\* C10, amended: in a zone whose every network's root names one of its
\* servers, the value of every alias record the private expansion emits is
\* the name of an address record of all_records().
C10_NoDanglingPrivateAlias ==
    ({"Both", "Private"} \subseteq ran /\ RootsAreServers(zone)) =>
        \A r \in SeqSet(out["Private"]) :
            r.variant = "Cname" =>
                \E t \in SeqSet(out["Both"]) : t.variant = "A" /\ t.name = r.value

\* A network of two servers whose root is one of them, one server with an
\* alias, expanded.
C10_Witness ==
    /\ {"Both", "Private"} \subseteq ran
    /\ RootsAreServers(zone)
    /\ \E ni \in 1..Len(zone.networks) :
        /\ Len(zone.networks[ni].servers) = 2
        /\ \E si \in 1..Len(zone.networks[ni].servers) :
            zone.networks[ni].servers[si].alias # <<>>

\* ----------------------------------------------------------- DiffSpec claims
\* The newest Diff was computed from obs and des as they are now.
DiffCurrent == Len(diffs) = (IF applied THEN 2 ELSE 1)
CurDiff == diffs[Len(diffs)]
ChangedNames(d) ==
    {d.changed[i][1].name : i \in 1..Len(d.changed)}
        \cup {d.changed[i][2].name : i \in 1..Len(d.changed)}
Occurrences(d, n) ==
    Cardinality({i \in 1..Len(d.superflous) : d.superflous[i].name = n})
        + Cardinality({i \in 1..Len(d.missing) : d.missing[i].name = n})
        + Cardinality({i \in 1..Len(d.changed) :
                        d.changed[i][1].name = n \/ d.changed[i][2].name = n})

\* C1: once every changed name of Diff::new(O, D) carries its desired record
\* in O and every missing record has been added to O, Diff::new of the new O
\* and D has empty missing and empty changed.
C1_RoundTripConvergence ==
    Len(diffs) = 2 => (diffs[2].missing = <<>> /\ diffs[2].changed = <<>>)

\* A second Diff after a first one that had both changed and missing records.
C1_Witness ==
    /\ Len(diffs) = 2
    /\ diffs[1].changed # <<>>
    /\ diffs[1].missing # <<>>
    /\ Len(obs) >= 3

\* C2: every name of O or D is in exactly one class: superfluous iff only in
\* O, missing iff only in D, changed or in no list when in both (in no list
\* when the records are equal); it occurs at most once in the three lists
\* together, and the lists hold no other name.
C2_DiffPartition ==
    DiffCurrent =>
        LET d == CurDiff
            NO == SeqNames(obs)
            ND == SeqNames(des)
        IN  /\ SeqNames(d.superflous) \cup SeqNames(d.missing) \cup ChangedNames(d)
                    \subseteq NO \cup ND
            /\ \A n \in NO \cup ND :
                /\ n \in SeqNames(d.superflous) <=> (n \in NO /\ n \notin ND)
                /\ n \in SeqNames(d.missing) <=> (n \notin NO /\ n \in ND)
                /\ n \in ChangedNames(d) => (n \in NO /\ n \in ND)
                /\ Occurrences(d, n) <= 1
                /\ (n \in NO /\ n \in ND /\ LastOf(obs, n) = LastOf(des, n))
                        => Occurrences(d, n) = 0
                /\ (n \in NO /\ n \in ND /\ LastOf(obs, n) # LastOf(des, n))
                        => Occurrences(d, n) = 1

\* A Diff with a superfluous name and an unchanged name, or a missing name
\* and a changed name.
C2_Witness ==
    /\ DiffCurrent
    /\ \E n, m \in SeqNames(obs) :
        /\ n \notin SeqNames(des)
        /\ m \in SeqNames(des)
        /\ LastOf(obs, m) = LastOf(des, m)
        /\ CurDiff.superflous # <<>>

\* C5: for a name in both O and D, changed holds exactly one pair of that
\* name, (desired, observed), iff the two records differ in variant or in
\* value, and none otherwise; the name is in neither missing nor superfluous.
C5_ChangedClassification ==
    DiffCurrent =>
        \A n \in SeqNames(obs) \cap SeqNames(des) :
            LET d == CurDiff
                o == LastOf(obs, n)
                w == LastOf(des, n)
                hits == {i \in 1..Len(d.changed) :
                            d.changed[i][1].name = n \/ d.changed[i][2].name = n}
            IN  /\ (o.variant # w.variant \/ o.value # w.value)
                        => /\ Cardinality(hits) = 1
                           /\ \A i \in hits : d.changed[i] = <<w, o>>
                /\ (o.variant = w.variant /\ o.value = w.value) => hits = {}
                /\ n \notin SeqNames(d.missing)
                /\ n \notin SeqNames(d.superflous)

\* A name that is an address record on one side and an alias record with the
\* same value on the other, reported in changed.
C5_Witness ==
    /\ DiffCurrent
    /\ \E n \in SeqNames(obs) \cap SeqNames(des) :
        /\ LastOf(obs, n).variant # LastOf(des, n).variant
        /\ LastOf(obs, n).value = LastOf(des, n).value
        /\ <<LastOf(des, n), LastOf(obs, n)>> \in SeqSet(CurDiff.changed)

DiffAsSets(d) ==
    [superflous |-> SeqSet(d.superflous), missing |-> SeqSet(d.missing),
     changed |-> SeqSet(d.changed)]

\* C8: of several records of one name in O or in D only the last takes part:
\* every record reported is the last of its name on its side, and the Diff
\* is the Diff of the inputs without their earlier duplicates.
C8_LastWins ==
    DiffCurrent =>
        LET d == CurDiff
            o1 == DedupLast(obs)
            d1 == DedupLast(des)
        IN  /\ \A r \in SeqSet(d.superflous) : r = LastOf(obs, r.name)
            /\ \A r \in SeqSet(d.missing) : r = LastOf(des, r.name)
            /\ \A c \in SeqSet(d.changed) :
                c = <<LastOf(des, c[1].name), LastOf(obs, c[1].name)>>
            /\ \A ia \in IterOrders(IndexByName(o1)), ib \in IterOrders(IndexByName(d1)) :
                DiffAsSets(d) = DiffAsSets(DiffNew(o1, d1, ia, ib))

\* O holds two records of one name, the first equal to the desired record
\* and the last not; D holds two of one name as well, or a missing name.
C8_Witness ==
    /\ DiffCurrent
    /\ ~applied
    /\ \E i, j \in 1..Len(obs) :
        /\ i < j
        /\ obs[i].name = obs[j].name
        /\ obs[i] # obs[j]
        /\ obs[i] \in SeqSet(des)
        /\ \E c \in SeqSet(CurDiff.changed) : c[2] = obs[j]
    /\ DedupLast(des) # des

\* --------------------------------------------------------------- Spec claims
\* C4: a pass makes only update and create calls, and every record the
\* provider listed under a name that is no desired name is held by the
\* provider, unchanged, in every state of the pass, whether it ends in
\* success or in an error.
C4_SuperfluousKept ==
    /\ \A i \in 1..Len(calls) : calls[i].op \in {"update", "create"}
    /\ \A i \in 1..Len(dns_records) :
        dns_records[i].name \notin SeqNames(recs) =>
            /\ i <= Len(provider)
            /\ provider[i] = dns_records[i]
    /\ \A r \in SeqSet(diff.superflous) :
        \E i \in 1..Len(provider) :
            /\ provider[i].name = r.name
            /\ provider[i].content = r.value
            /\ CfRecordToRecord(provider[i]) = <<r>>

\* A pass that has updated one record and created another while the
\* provider holds a superfluous record listed last, ended either way.
C4_Witness ==
    /\ pc \in {"done", "failed"}
    /\ diff.superflous # <<>>
    /\ Len(dns_records) >= 2
    /\ dns_records[Len(dns_records)].name \notin SeqNames(recs)
    /\ \E i, j \in 1..Len(calls) :
        /\ calls[i].op = "update" /\ calls[i].ok
        /\ calls[j].op = "create" /\ calls[j].ok

\* C7: an update or create call that fails is the last call of the pass and
\* the pass has ended with its error; updates come before creates; and what
\* the calls before it changed at the provider stays changed.
C7_AbortOnFirstFailure ==
    /\ \A i \in 1..Len(calls) : i < Len(calls) => calls[i].ok
    /\ (calls # <<>> /\ ~calls[Len(calls)].ok) =>
            /\ pc \in {"failed", "panicked"}
            /\ err # ""
            /\ (calls[Len(calls)].sent => err = "request failed")
    /\ \A i, j \in 1..Len(calls) :
        (i < j /\ calls[i].op = "create") => calls[j].op = "create"
    /\ \A i \in 1..Len(calls) :
        calls[i].ok =>
            \E k \in 1..Len(provider) :
                /\ provider[k].name = calls[i].name
                /\ provider[k].type = calls[i].content.type
                /\ provider[k].content = calls[i].content.content
                /\ calls[i].op = "update" => provider[k].id = calls[i].id
                /\ calls[i].op = "create" => k > Len(dns_records)
    /\ calls # <<>> =>
            Len(provider) =
                Len(dns_records)
                    + Cardinality({i \in 1..Len(calls) :
                                    calls[i].op = "create" /\ calls[i].ok})

\* A pass whose first call succeeded and whose second failed at the provider
\* with work left to do.
C7_Witness ==
    /\ Len(calls) = 2
    /\ calls[1].ok
    /\ calls[2].sent /\ ~calls[2].ok
    /\ ci + mi < Len(diff.changed) + Len(diff.missing)
    /\ pc = "failed"

\* The id of the listed record Diff::new took the observed record of name n
\* from: the last listed record of that name that cf_record_to_record keeps.
ObservedSourceId(listing, n) ==
    LET hits == {i \in 1..Len(listing) :
                    listing[i].name = n /\ CfRecordToRecord(listing[i]) # <<>>}
    IN  listing[CHOOSE i \in hits : \A j \in hits : j <= i].id

\* C9: for every changed pair the id lookup succeeds, and the id sent with
\* the update is the id of the listed record the observed record of the pair
\* was made from.
C9_UpdateTargeting ==
    /\ err # "Unable to find record id"
    /\ \A i \in 1..Len(calls) :
        calls[i].op = "update" =>
            calls[i].id = ObservedSourceId(dns_records, calls[i].name)

====
